---------------------------- MODULE Spec2Model ----------------------------
(***************************************************************************)
(* Snapshot versioning and change attribution of the collaborative editor. *)
(*                                                                         *)
(* Two browser clients (src/src/client.js) and the room server             *)
(* (src/src/party/server.ts) each hold a replica of one Yjs document.      *)
(* A replica is modelled by what it has integrated of every client's       *)
(* struct list (its state vector) and by its delete set.  Clients          *)
(* exchange state with the room server only.                               *)
(*                                                                         *)
(* Yjs facts the model relies on (the library is not part of src/):        *)
(*   - every inserted struct takes one clock unit of its author; a         *)
(*     deletion takes none and is recorded in the delete set;              *)
(*   - Y.Array.push inserts one struct whose origin is the last element    *)
(*     of the array on the pushing replica; structs with the same origin   *)
(*     are ordered by ascending client id, each followed by its subtree;   *)
(*   - a state vector holds an entry only for clients with a struct;       *)
(*   - a transaction calls the type observers first and emits the          *)
(*     document's 'update' event afterwards.                               *)
(***************************************************************************)
EXTENDS Integers, Sequences, FiniteSets, TLC

\* ------------------------------------------------------------- bounds
\* what happens in one run in which both clients act: content insertions,
\* deletions, captured Versions and timer periods that pass, all together
MaxInputs == 3
\* the same for a run in which only the first client acts
MaxSolo == 4
\* pending settle timeouts of one client
MaxSettle == 2
\* presence reports sent in one run
MaxReports == 3
\* timer periods that pass after the users stopped editing
MaxQuiet == 2

\* ---------------------------------------------------------- constants
Clients == {1, 2}
Server == 0
Docs == Clients \cup {Server}

\* JavaScript's undefined and NaN as they arise in Map.get() and undefined + 1
Undefined == -2
NaN == -1

\* a string is the sequence of its characters; a word written as one
\* element stands for its (non-blank) characters
Anonymous == <<"Anonymous">>
UnknownUser == <<"Unknown user">>

\* what window.prompt returns: null when the dialog is cancelled, else the
\* text typed
Cancelled == [cancelled |-> TRUE, text |-> <<>>]
Typed(text) == [cancelled |-> FALSE, text |-> text]
Answers ==
  {Cancelled, Typed(<<>>), Typed(<<" ">>), Typed(<<"Alice">>),
   Typed(<<" ", "Bob", " ">>)}

\* String.prototype.trim
RECURSIVE trim(_)
trim(text) ==
  IF text = <<>> THEN text
  ELSE IF Head(text) = " " THEN trim(Tail(text))
  ELSE IF text[Len(text)] = " " THEN trim(SubSeq(text, 1, Len(text) - 1))
  ELSE text

\* one timer period, intervalSeconds * 1000 ms, is the unit of time
Interval == 1

NoId == <<0, 0>>

VARIABLES
  store,            \* [Clients -> Seq(struct)]: the structs each client created
  known,            \* [Docs -> [Clients -> Nat]]: structs integrated per author
  ds,               \* [Docs -> SUBSET Id]: the replica's delete set
  now,              \* Date.now(), in timer intervals
  autoFlag,         \* setupAutoSnapshot's hasUserMadeSubstantiveEdits
  lastVersionTime,  \* setupAutoSnapshot's lastVersionTime
  due,              \* the interval timer expired, its callback is queued
  btnFlag,          \* the rendered snapshotButton's edits flag
  rendered,         \* the version list as rendered by the latest rerender()
  syncState,        \* ySyncPlugin state: [snapshot, prevSnapshot]
  checked,          \* liveTracking.checked
  settle,           \* pending timeouts of updateLiveTrackingState
  lastStateVector,  \* EditorServer.lastStateVector
  lastChangeInfo,   \* EditorServer.lastChangeInfo
  dirty,            \* the server document changed since the last callback
  pud,              \* PermanentUserData's timeout is pending
  answer,           \* what each user answered to window.prompt
  armed,            \* setupAutoSnapshot's interval timer is set
  listening,        \* setupAutoSnapshot's updateHandler is registered
  conn,             \* the server's handling of each client's connection
  sent,             \* the presence reports sent to the aggregator
  quiet,            \* 0 while the users edit; else 1 + the timer periods
                    \* passed since they all stopped editing
  last              \* history: the operation performed by the latest step

vars == <<store, known, ds, now, autoFlag, lastVersionTime, due, btnFlag,
          rendered, syncState, checked, settle, lastStateVector,
          lastChangeInfo, dirty, pud, answer, armed, listening, conn, sent,
          quiet, last>>

\* what only the page load, the stop function and the connection handlers
\* change
rest == <<answer, armed, listening, conn, sent>>

\* the name under which client c captures: the prompt's answer, trimmed, or
\* "Anonymous" when the answer is null or the empty string
userDisplayName(c) ==
  IF ~answer[c].cancelled /\ answer[c].text # <<>>
  THEN trim(answer[c].text)
  ELSE Anonymous

\* ------------------------------------------------------- JavaScript values
\* Map.prototype.get
MapGet(m, k) == IF k \in DOMAIN m THEN m[k] ELSE Undefined

\* x || 0
OrZero(x) == IF x = Undefined \/ x = NaN THEN 0 ELSE x

\* x + 1
PlusOne(x) == IF x = Undefined \/ x = NaN THEN NaN ELSE x + 1

\* a > b, false when either side is undefined or NaN
Greater(a, b) == a \notin {NaN, Undefined} /\ b \notin {NaN, Undefined} /\ a > b

\* Map.prototype.set
MapSet(m, k, v) == [x \in DOMAIN m \cup {k} |-> IF x = k THEN v ELSE m[x]]

EmptyMap == [x \in {} |-> 0]

\* -------------------------------------------------------------- structs
Blank(kind) ==
  [kind |-> kind, origin |-> NoId, date |-> 0,
   snapshot |-> [ds |-> <<>>, sv |-> <<>>], clientID |-> 0, username |-> <<>>]

StructAt(id) == store[id[1]][id[2] + 1]

\* the ids a replica has integrated
KnownIds(d) == UNION {{<<c, k>> : k \in 0 .. (known[d][c] - 1)} : c \in Clients}

OfKind(d, kind) == {id \in KnownIds(d) : StructAt(id).kind = kind}

\* doc.getXmlFragment('prosemirror').toString(): the visible content
Text(d) == OfKind(d, "text") \ ds[d]

\* Y.encodeStateVector / Y.decodeStateVector: entries of clients with structs
StateVector(d) == [c \in {x \in Clients : known[d][x] > 0} |-> known[d][c]]

\* Y.snapshot(doc)
Snapshot(d) == [sv |-> StateVector(d), ds |-> ds[d]]

emptySnapshot == [sv |-> EmptyMap, ds |-> {}]

\* Y.createDocFromSnapshot(doc, snap).getXmlFragment('prosemirror').toString():
\* the content of replica d that the snapshot's state vector covers and its
\* delete set has not deleted
Materialize(d, snap) ==
  {id \in OfKind(d, "text") : id[2] < OrZero(MapGet(snap.sv, id[1]))} \ snap.ds


\* ------------------------------------------- snapshot encoding (Yjs)
RECURSIVE Descending(_)
\* the members of a set of numbers, largest first
Descending(S) ==
  IF S = {} THEN <<>>
  ELSE LET m == CHOOSE x \in S : \A y \in S : y <= x
       IN <<m>> \o Descending(S \ {m})

RECURSIVE RunLength(_, _)
\* the number of consecutive clocks in D from k on
RunLength(D, k) == IF k \in D THEN 1 + RunLength(D, k + 1) ELSE 0

RECURSIVE Ranges(_, _, _)
\* the maximal runs <<client, clock, len>> of the deleted clocks D of client c
Ranges(c, D, k) ==
  IF D = {} \/ k > CHOOSE x \in D : \A y \in D : y <= x THEN <<>>
  ELSE IF k \in D /\ (k - 1) \notin D
       THEN <<(<<c, k, RunLength(D, k)>>)>> \o Ranges(c, D, k + 1)
       ELSE Ranges(c, D, k + 1)

RECURSIVE DeleteRanges(_, _)
DeleteRanges(set, cs) ==
  IF cs = <<>> THEN <<>>
  ELSE LET c == Head(cs)
       IN Ranges(c, {id[2] : id \in {x \in set : x[1] = c}}, 0)
            \o DeleteRanges(set, Tail(cs))

\* Y.encodeSnapshot: the delete ranges, then the state vector entries
encodeSnapshot(snap) ==
  LET cs == Descending(DOMAIN snap.sv)
  IN [ds |-> DeleteRanges(snap.ds, Descending({id[1] : id \in snap.ds})),
      sv |-> [i \in 1 .. Len(cs) |-> <<cs[i], snap.sv[cs[i]]>>]]

\* Y.decodeSnapshot
decodeSnapshot(enc) ==
  LET svs == {enc.sv[i] : i \in 1 .. Len(enc.sv)}
      rs == {enc.ds[i] : i \in 1 .. Len(enc.ds)}
  IN [sv |-> [c \in {e[1] : e \in svs} |->
                (CHOOSE e \in svs : e[1] = c)[2]],
      ds |-> UNION {{<<r[1], r[2] + j>> : j \in 0 .. (r[3] - 1)} : r \in rs}]

\* Y.equalSnapshots: same number of entries, every entry strictly equal
equalSnapshots(a, b) ==
  /\ Cardinality(DOMAIN a.sv) = Cardinality(DOMAIN b.sv)
  /\ \A k \in DOMAIN a.sv :
       k \in DOMAIN b.sv /\ a.sv[k] # NaN /\ a.sv[k] = b.sv[k]
  /\ a.ds = b.ds

\* ------------------------------------------------ the Version Log
RECURSIVE Subtree(_, _, _)
\* the array elements whose origin is p, by ascending client id, each
\* followed by the elements inserted after it
Subtree(ids, p, cs) ==
  IF cs = {} THEN <<>>
  ELSE LET c == CHOOSE x \in cs : \A y \in cs : x <= y
           kids == {id \in ids : id[1] = c /\ StructAt(id).origin = p}
       IN (IF kids = {} THEN <<>>
           ELSE CHOOSE run \in {<<k>> \o Subtree(ids, k, Clients) :
                                  k \in kids} : TRUE)
            \o Subtree(ids, p, cs \ {c})

\* the struct ids of doc.getArray("versions"), in array order
VersionIds(d) ==
  CHOOSE order \in {Subtree(ids, NoId, Clients) :
                      ids \in {OfKind(d, "version")}} : TRUE

\* one element of the array: the Version object
VersionOf(id) ==
  [date |-> StructAt(id).date, snapshot |-> StructAt(id).snapshot,
   clientID |-> StructAt(id).clientID, username |-> StructAt(id).username]

\* doc.getArray("versions").toArray()
Versions(d) ==
  CHOOSE array \in {[i \in 1 .. Len(ids) |-> VersionOf(ids[i])] :
                      ids \in {VersionIds(d)}} : TRUE


\* ------------------------------------------------------- addVersion
\* variant of prevSnapshotOf that forgets to account for the push itself
prevSnapshotUncompensated(vs) ==
  IF Len(vs) = 0 THEN emptySnapshot
  ELSE decodeSnapshot(vs[Len(vs)].snapshot)

\* prevSnapshot of addVersion: the last Version's snapshot with its author's
\* entry incremented, Y.emptySnapshot when the log is empty
prevSnapshotOf(vs) ==
  IF Len(vs) = 0 THEN emptySnapshot
  ELSE LET prevVersion == vs[Len(vs)]
           decoded == decodeSnapshot(prevVersion.snapshot)
       IN [decoded EXCEPT !.sv =
             MapSet(decoded.sv, prevVersion.clientID,
                    PlusOne(MapGet(decoded.sv, prevVersion.clientID)))]

\* variant of addVersionAdds without the empty-document guard
addVersionAddsEmpty(r) ==
  LET prevSnapshot == prevSnapshotOf(Versions(r))
      snapshot == Snapshot(r)
      prevClientClock == OrZero(MapGet(prevSnapshot.sv, r))
      currentClientClock == OrZero(MapGet(snapshot.sv, r))
  IN /\ ~equalSnapshots(prevSnapshot, snapshot)
     /\ Greater(currentClientClock, prevClientClock)

\* variant of addVersionAdds without the local clock guard
addVersionAddsAnyClock(r) ==
  LET prevSnapshot == prevSnapshotOf(Versions(r))
      snapshot == Snapshot(r)
  IN /\ ~equalSnapshots(prevSnapshot, snapshot)
     /\ Cardinality(Text(r)) > 0

\* whether addVersion(doc, username) on client r pushes a Version
addVersionAdds(r) ==
  LET prevSnapshot == prevSnapshotOf(Versions(r))
      snapshot == Snapshot(r)
      prevClientClock == OrZero(MapGet(prevSnapshot.sv, r))
      currentClientClock == OrZero(MapGet(snapshot.sv, r))
  IN /\ ~equalSnapshots(prevSnapshot, snapshot)
     /\ Greater(currentClientClock, prevClientClock)
     /\ Cardinality(Text(r)) > 0

\* variant of newVersion that stores prevSnapshot in place of snapshot
newVersionPrev(r) ==
  [kind |-> "version",
   origin |-> LET ids == VersionIds(r)
              IN IF Len(ids) = 0 THEN NoId ELSE ids[Len(ids)],
   date |-> now,
   snapshot |-> encodeSnapshot(prevSnapshotOf(Versions(r))),
   clientID |-> r,
   username |-> userDisplayName(r)]

\* variant of newVersion that stores the empty snapshot
newVersionEmptySnapshot(r) ==
  [kind |-> "version",
   origin |-> LET ids == VersionIds(r)
              IN IF Len(ids) = 0 THEN NoId ELSE ids[Len(ids)],
   date |-> now,
   snapshot |-> encodeSnapshot(emptySnapshot),
   clientID |-> r,
   username |-> userDisplayName(r)]

\* variant of newVersion whose snapshot leaves out the author's own clock
newVersionOthersOnly(r) ==
  [kind |-> "version",
   origin |-> LET ids == VersionIds(r)
              IN IF Len(ids) = 0 THEN NoId ELSE ids[Len(ids)],
   date |-> now,
   snapshot |->
     encodeSnapshot(
       [sv |-> [c \in DOMAIN StateVector(r) \ {r} |-> StateVector(r)[c]],
        ds |-> ds[r]]),
   clientID |-> r,
   username |-> userDisplayName(r)]

\* the struct versions.push inserts on client r
newVersion(r) ==
  [kind |-> "version",
   origin |-> LET ids == VersionIds(r)
              IN IF Len(ids) = 0 THEN NoId ELSE ids[Len(ids)],
   date |-> now,
   snapshot |-> encodeSnapshot(Snapshot(r)),
   clientID |-> r,
   username |-> userDisplayName(r)]

\* --------------------------------------------- rendering and events
Some(x) == <<x>>
None == <<>>

RECURSIVE versionTemplates(_, _)
\* versionList: one versionTemplate per array element from index i on; an
\* entry refers to its Version and to the element before it, whose snapshot
\* is its prevSnapshot (null for the first)
versionTemplates(ids, i) ==
  IF i > Len(ids) THEN <<>>
  ELSE <<[version |-> ids[i],
          prev |-> IF i > 1 THEN Some(ids[i - 1]) ELSE None]>>
         \o versionTemplates(ids, i + 1)

versionList(d) ==
  CHOOSE list \in {versionTemplates(ids, 1) : ids \in {VersionIds(d)}} : TRUE

\* the updateHandler's test
updateHandlerHit(origin, text) == origin # "remote" /\ Cardinality(text) > 0

\* the origin tag of a transaction applied by the connection provider: the
\* provider object itself, or the tag 'remote' that the update handlers
\* test for
ProviderOrigins == {"provider", "remote"}

\* A transaction on client r has changed the document (store, known, ds are
\* primed already).  The observer of the versions array rerenders when the
\* array changed, which creates a new snapshotButton; then every registered
\* updateHandler runs.
Transacted(r, origin) ==
  LET changed == OfKind(r, "version")' # OfKind(r, "version")
      hit == updateHandlerHit(origin, Text(r)')
  IN /\ rendered' = IF changed
                    THEN [rendered EXCEPT ![r] = versionList(r)']
                    ELSE rendered
     /\ btnFlag' = [btnFlag EXCEPT ![r] = IF changed THEN hit ELSE @ \/ hit]
     /\ autoFlag' = [autoFlag EXCEPT ![r] = @ \/ (listening[r] /\ hit)]

\* the inputs of the run so far
Spent ==
  Cardinality(UNION {OfKind(c, "text") \cup OfKind(c, "version") :
                       c \in Clients})
    + Cardinality(UNION {ds[d] : d \in Docs}) + now

\* only the first client has edited or captured so far
Solo == \A c \in Clients \ {1} : Len(store[c]) = 1 /\ ds[c] = {}

\* there is room for one more input, made by client r
Room(r) == Spent < (IF Solo /\ r = 1 THEN MaxSolo ELSE MaxInputs)

\* a local transaction inserting one struct
Insert(r, struct) ==
  /\ store' = [store EXCEPT ![r] = Append(@, struct)]
  /\ known' = [known EXCEPT ![r][r] = @ + 1]

\* history record: the handler that ran, on which replica, whether it called
\* addVersion, what addVersion returned, the alert shown, the entry selected
\* the view the selection was made in, and the replicas an observation of
\* the server found advanced
Op(op, who, called, ret) ==
  [op |-> op, who |-> who, called |-> called, ret |-> ret, alert |-> "",
   index |-> 0, from |-> [snapshot |-> None, prevSnapshot |-> None],
   advanced |-> {}]

\* any handler that neither captures nor selects
Idle == Op("", Server, FALSE, FALSE)

\* ------------------------------------------------- editing (client r)
\* the user types: content is inserted into the prosemirror fragment
LocalInsert(r) ==
  /\ quiet = 0
  /\ Room(r)
  /\ Insert(r, Blank("text"))
  /\ ds' = ds
  /\ Transacted(r, "local")
  /\ last' = Idle
  /\ UNCHANGED <<now, lastVersionTime, due, syncState, checked, settle,
                 lastStateVector, lastChangeInfo, dirty, pud>>
  /\ UNCHANGED rest
  /\ UNCHANGED quiet

\* the user deletes visible content; PermanentUserData notes the deletion
\* in a timeout of its own
LocalDelete(r) ==
  /\ quiet = 0
  /\ Room(r)
  /\ \E id \in Text(r) : ds' = [ds EXCEPT ![r] = @ \cup {id}]
  /\ UNCHANGED <<store, known>>
  /\ Transacted(r, "local")
  /\ pud' = [pud EXCEPT ![r] = TRUE]
  /\ last' = Idle
  /\ UNCHANGED <<now, lastVersionTime, due, syncState, checked, settle,
                 lastStateVector, lastChangeInfo, dirty>>
  /\ UNCHANGED rest
  /\ UNCHANGED quiet

\* PermanentUserData's timeout: a local write outside the fragment and the
\* versions array
LocalMeta(r) ==
  /\ pud[r]
  /\ pud' = [pud EXCEPT ![r] = FALSE]
  /\ Insert(r, Blank("meta"))
  /\ ds' = ds
  /\ Transacted(r, "local")
  /\ last' = Idle
  /\ UNCHANGED <<now, lastVersionTime, due, syncState, checked, settle,
                 lastStateVector, lastChangeInfo, dirty>>
  /\ UNCHANGED rest
  /\ UNCHANGED quiet

\* ------------------------------------------------------ capturing
\* variant of addVersion that pushes the Version twice
addVersionTwice(r, added) ==
  IF added
  THEN /\ Room(r)
       /\ store' = [store EXCEPT ![r] =
            LET first == newVersion(r)
            IN Append(Append(@, first),
                      [first EXCEPT !.origin = <<r, known[r][r]>>])]
       /\ known' = [known EXCEPT ![r][r] = @ + 2]
       /\ ds' = ds
       /\ Transacted(r, "local")
  ELSE UNCHANGED <<store, known, ds, rendered, btnFlag, autoFlag>>

\* addVersion(doc, username) on client r: its effect on the document, given
\* its return value
addVersion(r, added) ==
  IF added
  THEN /\ Room(r) \/ quiet > 0
       /\ Insert(r, newVersion(r))
       /\ ds' = ds
       /\ Transacted(r, "local")
  ELSE UNCHANGED <<store, known, ds, rendered, btnFlag, autoFlag>>

\* the setInterval callback of setupAutoSnapshot
TimerTick(r) ==
  /\ armed[r]
  /\ due[r]
  /\ due' = [due EXCEPT ![r] = FALSE]
  /\ LET currentTime == now
         try == /\ autoFlag[r]
                /\ currentTime - lastVersionTime[r] >= Interval
                /\ Cardinality(Text(r)) > 0
         added == addVersionAdds(r)
     IN IF try
        THEN /\ addVersion(r, added)
             /\ lastVersionTime' =
                  IF added
                  THEN [lastVersionTime EXCEPT ![r] = currentTime]
                  ELSE lastVersionTime
             /\ last' = Op("timer", r, TRUE, added)
        ELSE /\ UNCHANGED <<store, known, ds, rendered, btnFlag, autoFlag,
                            lastVersionTime>>
             /\ last' = Op("timer", r, FALSE, FALSE)
  /\ UNCHANGED <<now, syncState, checked, settle, lastStateVector,
                 lastChangeInfo, dirty, pud>>
  /\ UNCHANGED rest
  /\ UNCHANGED quiet

\* variant of stopAutoSnapshot that leaves updateHandler registered
stopTimerOnly(r) ==
  /\ armed[r]
  /\ armed' = [armed EXCEPT ![r] = FALSE]
  /\ due' = [due EXCEPT ![r] = FALSE]
  /\ last' = Op("stop", r, FALSE, FALSE)
  /\ UNCHANGED <<store, known, ds, now, autoFlag, lastVersionTime, btnFlag,
                 rendered, syncState, checked, settle, lastStateVector,
                 lastChangeInfo, dirty, pud, quiet, answer, listening, conn,
                 sent>>

\* the function setupAutoSnapshot returns, called: clearInterval(intervalId)
\* and doc.off('update', updateHandler)
stopAutoSnapshot(r) ==
  /\ armed[r]
  /\ armed' = [armed EXCEPT ![r] = FALSE]
  /\ due' = [due EXCEPT ![r] = FALSE]
  /\ listening' = [listening EXCEPT ![r] = FALSE]
  /\ last' = Op("stop", r, FALSE, FALSE)
  /\ UNCHANGED <<store, known, ds, now, autoFlag, lastVersionTime, btnFlag,
                 rendered, syncState, checked, settle, lastStateVector,
                 lastChangeInfo, dirty, pud, quiet, answer, conn, sent>>

\* the click handler of the Snapshot button
SnapshotClick(r) ==
  /\ IF btnFlag[r] /\ Cardinality(Text(r)) > 0
     THEN LET added == addVersionAdds(r)
          IN /\ addVersion(r, added)
             /\ last' = Op("click", r, TRUE, added)
     ELSE /\ UNCHANGED <<store, known, ds, rendered, btnFlag, autoFlag>>
          /\ last' = [Op("click", r, FALSE, FALSE) EXCEPT !.alert =
                       IF Cardinality(Text(r)) = 0
                       THEN "The document is empty."
                       ELSE "You haven't made any changes yet."]
  /\ UNCHANGED <<now, lastVersionTime, due, syncState, checked, settle,
                 lastStateVector, lastChangeInfo, dirty, pud>>
  /\ UNCHANGED rest
  /\ UNCHANGED quiet


\* ---------------------------------------------------- synchronisation
\* the room server integrates what client c has
Push(c) ==
  /\ conn[c] = "open"
  /\ \/ known[c][c] > known[Server][c]
     \/ ~(ds[c] \subseteq ds[Server])
  /\ known' = [known EXCEPT ![Server] =
                 [x \in Clients |-> IF known[c][x] > @[x] THEN known[c][x]
                                    ELSE @[x]]]
  /\ ds' = [ds EXCEPT ![Server] = @ \cup ds[c]]
  /\ dirty' = TRUE
  /\ last' = Idle
  /\ UNCHANGED <<store, now, autoFlag, lastVersionTime, due, btnFlag,
                 rendered, syncState, checked, settle, lastStateVector,
                 lastChangeInfo, pud>>
  /\ UNCHANGED rest
  /\ UNCHANGED quiet

\* client c integrates what the room server has; the provider applies it in
\* one transaction
Pull(c) ==
  /\ conn[c] = "open"
  /\ \/ \E x \in Clients : known[Server][x] > known[c][x]
     \/ ~(ds[Server] \subseteq ds[c])
  /\ known' = [known EXCEPT ![c] =
                 [x \in Clients |-> IF known[Server][x] > @[x]
                                    THEN known[Server][x] ELSE @[x]]]
  /\ ds' = [ds EXCEPT ![c] = @ \cup ds[Server]]
  /\ store' = store
  /\ \E origin \in ProviderOrigins : Transacted(c, origin)
  /\ last' = Idle
  /\ UNCHANGED <<now, lastVersionTime, due, syncState, checked, settle,
                 lastStateVector, lastChangeInfo, dirty, pud>>
  /\ UNCHANGED rest
  /\ UNCHANGED quiet

\* time passes, by one timer period.  While the users edit, time is one of
\* the bounded inputs; after they stopped, the next period begins once the
\* ticks of this one have fired and what they wrote is delivered
Advance ==
  /\ IF quiet = 0
     THEN \E r \in Clients : Room(r)
     ELSE /\ quiet <= MaxQuiet
          /\ \A c \in Clients :
               /\ ~due[c] /\ ~pud[c]
               /\ known[c] = known[Server] /\ ds[c] = ds[Server]
  /\ now' = now + 1
  /\ quiet' = IF quiet = 0 THEN 0 ELSE quiet + 1
  /\ due' = [c \in Clients |-> armed[c]]
  /\ last' = Idle
  /\ UNCHANGED <<store, known, ds, autoFlag, lastVersionTime,
                 btnFlag, rendered, syncState, checked, settle,
                 lastStateVector, lastChangeInfo, dirty, pud>>
  /\ UNCHANGED rest

\* all users stop editing the document content
StopEditing ==
  /\ quiet = 0
  /\ quiet' = 1
  /\ last' = Idle
  /\ UNCHANGED <<store, known, ds, now, autoFlag, lastVersionTime, due,
                 btnFlag, rendered, syncState, checked, settle,
                 lastStateVector, lastChangeInfo, dirty, pud>>
  /\ UNCHANGED rest

\* ------------------------------------------- change attribution (server)
\* the entries of Y.decodeStateVector(Y.encodeStateVector(doc)), in the
\* order the encoder wrote them: by descending client id
Entries(sv) ==
  LET cs == Descending(DOMAIN sv)
  IN [i \in 1 .. Len(cs) |-> <<cs[i], sv[cs[i]]>>]

\* variant of firstObservation that diffs the first observation as well
firstObservationDiffed(lsv) == FALSE

\* variant of previousClockOf without the default of 0
previousClockNoDefault(lsv, clientID) == MapGet(lsv, clientID)

\* variant of clockIncreased that takes an equal clock for an increase
clockNotDecreased(clock, previousClock) ==
  clock = previousClock \/ Greater(clock, previousClock)

\* this.lastStateVector.size === 0
firstObservation(lsv) == Cardinality(DOMAIN lsv) = 0

\* this.lastStateVector.get(clientID) || 0
previousClockOf(lsv, clientID) == OrZero(MapGet(lsv, clientID))

\* clock > previousClock
clockIncreased(clock, previousClock) == Greater(clock, previousClock)

\* the replicas whose clock in the server's document is above a non-empty
\* stored baseline
Advanced ==
  IF Cardinality(DOMAIN lastStateVector) = 0 THEN {}
  ELSE {c \in DOMAIN StateVector(Server) :
          StateVector(Server)[c] >
            (IF c \in DOMAIN lastStateVector THEN lastStateVector[c] ELSE 0)}

RECURSIVE CompareLoopFirstWins(_, _, _)
\* variant of CompareLoop in which the first replica found advanced wins
CompareLoopFirstWins(entries, i, acc) ==
  IF i > Len(entries) THEN acc
  ELSE LET clientID == entries[i][1]
           clock == entries[i][2]
           previousClock == previousClockOf(acc.lastStateVector, clientID)
       IN IF clockIncreased(clock, previousClock)
          THEN CompareLoopFirstWins(entries, i + 1,
                 [changedClientID |->
                    IF acc.changedClientID = None THEN Some(clientID)
                    ELSE acc.changedClientID,
                  lastStateVector |->
                    MapSet(acc.lastStateVector, clientID, clock)])
          ELSE CompareLoopFirstWins(entries, i + 1, acc)

RECURSIVE CompareLoopKeepsBaseline(_, _, _)
\* variant of CompareLoop that does not store the clock of a replica found
\* advanced
CompareLoopKeepsBaseline(entries, i, acc) ==
  IF i > Len(entries) THEN acc
  ELSE LET clientID == entries[i][1]
           clock == entries[i][2]
           previousClock == previousClockOf(acc.lastStateVector, clientID)
       IN IF clockIncreased(clock, previousClock)
          THEN CompareLoopKeepsBaseline(entries, i + 1,
                 [changedClientID |-> Some(clientID),
                  lastStateVector |-> acc.lastStateVector])
          ELSE CompareLoopKeepsBaseline(entries, i + 1, acc)

RECURSIVE CompareLoop(_, _, _)
\* the for loop of handleYDocChange from entry i on
CompareLoop(entries, i, acc) ==
  IF i > Len(entries) THEN acc
  ELSE LET clientID == entries[i][1]
           clock == entries[i][2]
           previousClock == previousClockOf(acc.lastStateVector, clientID)
       IN IF clockIncreased(clock, previousClock)
          THEN CompareLoop(entries, i + 1,
                 [changedClientID |-> Some(clientID),
                  lastStateVector |->
                    MapSet(acc.lastStateVector, clientID, clock)])
          ELSE CompareLoop(entries, i + 1, acc)

RECURSIVE FindUsernameAny(_, _, _)
\* variant of FindUsername that takes the name of a matching entry as it is
FindUsernameAny(vs, i, changedClientID) ==
  IF i < 1 THEN UnknownUser
  ELSE IF vs[i].clientID = changedClientID
       THEN vs[i].username
       ELSE FindUsernameAny(vs, i - 1, changedClientID)

RECURSIVE FindUsername(_, _, _)
\* the scan of the versions array from index i down
FindUsername(vs, i, changedClientID) ==
  IF i < 1 THEN UnknownUser
  ELSE IF vs[i].clientID = changedClientID /\ vs[i].username # <<>>
       THEN vs[i].username
       ELSE FindUsername(vs, i - 1, changedClientID)

\* EditorServer.handleYDocChange, called back after the document changed
handleYDocChange ==
  /\ dirty
  /\ dirty' = FALSE
  /\ LET decodedStateVector == StateVector(Server)
     IN IF firstObservation(lastStateVector)
        THEN /\ lastStateVector' = decodedStateVector
             /\ lastChangeInfo' = lastChangeInfo
        ELSE LET res == CompareLoop(Entries(decodedStateVector), 1,
                          [changedClientID |-> None,
                           lastStateVector |-> lastStateVector])
             IN /\ lastStateVector' = res.lastStateVector
                /\ lastChangeInfo' =
                     IF res.changedClientID # None
                     THEN Some([clientID |-> res.changedClientID[1],
                                username |->
                                  FindUsername(Versions(Server),
                                    Len(Versions(Server)),
                                    res.changedClientID[1]),
                                timestamp |-> now])
                     ELSE lastChangeInfo
  /\ last' = [Op("observe", Server, FALSE, FALSE) EXCEPT
                !.advanced = Advanced]
  /\ UNCHANGED <<store, known, ds, now, autoFlag, lastVersionTime, due,
                 btnFlag, rendered, syncState, checked, settle, pud>>
  /\ UNCHANGED rest
  /\ UNCHANGED quiet


\* --------------------------------------------------- time-travel view
Live == [snapshot |-> None, prevSnapshot |-> None]

\* updateLiveTrackingState: a timeout that re-derives the checkbox later
updateLiveTrackingState(r) ==
  /\ settle[r] < MaxSettle
  /\ settle' = [settle EXCEPT ![r] = @ + 1]

\* variant of renderVersion that always diffs against the empty snapshot
renderVersionFromEmpty(r, entry) ==
  /\ syncState' = [syncState EXCEPT ![r] =
       [snapshot |-> Some(decodeSnapshot(VersionOf(entry.version).snapshot)),
        prevSnapshot |-> Some(emptySnapshot)]]
  /\ updateLiveTrackingState(r)

\* variant of renderVersion that replaces the snapshot and leaves the
\* prevSnapshot of the view as it is
renderVersionSnapshotOnly(r, entry) ==
  /\ syncState' = [syncState EXCEPT ![r].snapshot =
       Some(decodeSnapshot(VersionOf(entry.version).snapshot))]
  /\ updateLiveTrackingState(r)

\* renderVersion, the click handler of a rendered entry
renderVersion(r, entry) ==
  /\ syncState' = [syncState EXCEPT ![r] =
       [snapshot |-> Some(decodeSnapshot(VersionOf(entry.version).snapshot)),
        prevSnapshot |->
          Some(IF entry.prev = None THEN emptySnapshot
               ELSE decodeSnapshot(VersionOf(entry.prev[1]).snapshot))]]
  /\ updateLiveTrackingState(r)

\* variant of unrenderVersion that clears the snapshot only
unrenderVersionSnapshotOnly(r) ==
  /\ syncState' = [syncState EXCEPT ![r].snapshot = None]
  /\ updateLiveTrackingState(r)

\* unrenderVersion: binding.unrenderSnapshot() clears the pair
unrenderVersion(r) ==
  /\ syncState' = [syncState EXCEPT ![r] = Live]
  /\ updateLiveTrackingState(r)

\* the state of the view: Live, following the live document against the
\* latest Version, or Viewing a Version against its predecessor
ViewKind(state) ==
  IF state.prevSnapshot = None /\ state.snapshot = None THEN "Live"
  ELSE IF state.snapshot = None THEN "Tracking"
  ELSE "Viewing"

\* the user clicks entry i of the rendered version list
SelectVersion(r) ==
  \E i \in 1 .. Len(rendered[r]) :
    /\ renderVersion(r, rendered[r][i])
    /\ last' = [Op("select", r, FALSE, FALSE) EXCEPT
                  !.index = i, !.from = syncState[r]]
    /\ UNCHANGED <<store, known, ds, now, autoFlag, lastVersionTime, due,
                   btnFlag, rendered, checked, lastStateVector,
                   lastChangeInfo, dirty, pud>>
    /\ UNCHANGED rest
    /\ UNCHANGED quiet

\* the user clicks the Versions button: unrenderVersion, then rerender(),
\* which renders a new snapshotButton
VersionsClick(r) ==
  /\ unrenderVersion(r)
  /\ rendered' = [rendered EXCEPT ![r] = versionList(r)]
  /\ btnFlag' = [btnFlag EXCEPT ![r] = FALSE]
  /\ last' = [Op("versions", r, FALSE, FALSE) EXCEPT
                !.from = syncState[r]]
  /\ UNCHANGED <<store, known, ds, now, autoFlag, lastVersionTime, due,
                 checked, lastStateVector, lastChangeInfo, dirty, pud>>
  /\ UNCHANGED rest
  /\ UNCHANGED quiet

\* the user clicks the live-tracking checkbox, which toggles it first
LiveTrackingClick(r) ==
  /\ checked' = [checked EXCEPT ![r] = ~@]
  /\ IF ~checked[r]
     THEN LET versions == Versions(r)
              lastVersion ==
                IF Len(versions) > 0
                THEN decodeSnapshot(versions[Len(versions)].snapshot)
                ELSE emptySnapshot
          IN /\ syncState' = [syncState EXCEPT ![r] =
                  [snapshot |-> None, prevSnapshot |-> Some(lastVersion)]]
             /\ settle' = settle
     ELSE unrenderVersion(r)
  /\ last' = [Op("track", r, FALSE, FALSE) EXCEPT
                !.from = syncState[r]]
  /\ UNCHANGED <<store, known, ds, now, autoFlag, lastVersionTime, due,
                 btnFlag, rendered, lastStateVector, lastChangeInfo, dirty,
                 pud>>
  /\ UNCHANGED rest
  /\ UNCHANGED quiet

\* variant of SettleFire that derives the checkbox from prevSnapshot alone
SettleFirePrevOnly(r) ==
  /\ settle[r] > 0
  /\ settle' = [settle EXCEPT ![r] = @ - 1]
  /\ checked' = [checked EXCEPT ![r] = syncState[r].prevSnapshot # None]
  /\ last' = Idle
  /\ UNCHANGED <<store, known, ds, now, autoFlag, lastVersionTime, due,
                 btnFlag, rendered, syncState, lastStateVector,
                 lastChangeInfo, dirty, pud>>
  /\ UNCHANGED rest
  /\ UNCHANGED quiet

\* a timeout of updateLiveTrackingState fires
SettleFire(r) ==
  /\ settle[r] > 0
  /\ settle' = [settle EXCEPT ![r] = @ - 1]
  /\ checked' = [checked EXCEPT ![r] =
       syncState[r].prevSnapshot # None /\ syncState[r].snapshot = None]
  /\ last' = Idle
  /\ UNCHANGED <<store, known, ds, now, autoFlag, lastVersionTime, due,
                 btnFlag, rendered, syncState, lastStateVector,
                 lastChangeInfo, dirty, pud>>
  /\ UNCHANGED rest
  /\ UNCHANGED quiet

\* ------------------------------------------------ presence (server.ts)
\* this.room.getConnections(): the sockets that are connected to the room
Connections == {c \in Clients : conn[c] \in {"connecting", "open", "unsynced"}}

\* variant of updateCount that takes the count the room had before the
\* connection was opened or closed
updateCountBefore ==
  sent' = Append(sent, [count |-> Cardinality(Connections),
                        lastChange |-> lastChangeInfo])

\* updateCount() up to its await: the count is taken and the request to the
\* aggregator is sent
updateCount ==
  sent' = Append(sent, [count |-> Cardinality(Connections'),
                        lastChange |-> lastChangeInfo])

\* a socket connects: onConnect runs up to the await of updateCount()
onConnect(c) ==
  /\ conn[c] \in {"closed", "closeFailed"}
  /\ Len(sent) < MaxReports
  /\ conn' = [conn EXCEPT ![c] = "connecting"]
  /\ updateCount
  /\ last' = Idle
  /\ UNCHANGED <<store, known, ds, now, autoFlag, lastVersionTime, due,
                 btnFlag, rendered, syncState, checked, settle,
                 lastStateVector, lastChangeInfo, dirty, pud, quiet,
                 answer, armed, listening>>

\* the request is answered: onConnect goes on and hands the connection to
\* y-partykit's onConnect, which synchronises it
onConnectResumes(c) ==
  /\ conn[c] = "connecting"
  /\ conn' = [conn EXCEPT ![c] = "open"]
  /\ last' = Idle
  /\ UNCHANGED <<store, known, ds, now, autoFlag, lastVersionTime, due,
                 btnFlag, rendered, syncState, checked, settle,
                 lastStateVector, lastChangeInfo, dirty, pud, quiet,
                 answer, armed, listening, sent>>

\* the request fails: the await throws, onConnect rejects and the
\* connection is never handed to y-partykit's onConnect
onConnectRejects(c) ==
  /\ conn[c] = "connecting"
  /\ conn' = [conn EXCEPT ![c] = "unsynced"]
  /\ last' = Idle
  /\ UNCHANGED <<store, known, ds, now, autoFlag, lastVersionTime, due,
                 btnFlag, rendered, syncState, checked, settle,
                 lastStateVector, lastChangeInfo, dirty, pud, quiet,
                 answer, armed, listening, sent>>

\* a socket closes: onClose runs up to the await of updateCount()
onClose(c) ==
  /\ conn[c] \in {"open", "unsynced"}
  /\ Len(sent) < MaxReports
  /\ conn' = [conn EXCEPT ![c] = "closing"]
  /\ updateCount
  /\ last' = Idle
  /\ UNCHANGED <<store, known, ds, now, autoFlag, lastVersionTime, due,
                 btnFlag, rendered, syncState, checked, settle,
                 lastStateVector, lastChangeInfo, dirty, pud, quiet,
                 answer, armed, listening>>

\* the request is answered: onClose returns
onCloseResumes(c) ==
  /\ conn[c] = "closing"
  /\ conn' = [conn EXCEPT ![c] = "closed"]
  /\ last' = Idle
  /\ UNCHANGED <<store, known, ds, now, autoFlag, lastVersionTime, due,
                 btnFlag, rendered, syncState, checked, settle,
                 lastStateVector, lastChangeInfo, dirty, pud, quiet,
                 answer, armed, listening, sent>>

\* the request fails: the await throws and onClose rejects
onCloseRejects(c) ==
  /\ conn[c] = "closing"
  /\ conn' = [conn EXCEPT ![c] = "closeFailed"]
  /\ last' = Idle
  /\ UNCHANGED <<store, known, ds, now, autoFlag, lastVersionTime, due,
                 btnFlag, rendered, syncState, checked, settle,
                 lastStateVector, lastChangeInfo, dirty, pud, quiet,
                 answer, armed, listening, sent>>

\* ------------------------------------------------------ specification
\* the client whose time-travel view is followed
Viewer == CHOOSE c \in Clients : \A x \in Clients : c <= x

\* the pages are loaded and connected; the prompts are not answered yet
Setup ==
  /\ store = [c \in Clients |-> <<Blank("meta")>>]
  /\ known = [d \in Docs |-> [c \in Clients |->
                IF d = c THEN 1 ELSE 0]]
  /\ ds = [d \in Docs |-> {}]
  /\ now = 0
  /\ autoFlag = [c \in Clients |-> FALSE]
  /\ lastVersionTime = [c \in Clients |-> 0]
  /\ due = [c \in Clients |-> FALSE]
  /\ btnFlag = [c \in Clients |-> FALSE]
  /\ rendered = [c \in Clients |-> <<>>]
  /\ syncState = [c \in Clients |-> Live]
  /\ checked = [c \in Clients |-> FALSE]
  /\ settle = [c \in Clients |-> 1]
  /\ lastStateVector = EmptyMap
  /\ lastChangeInfo = None
  /\ dirty = FALSE
  /\ pud = [c \in Clients |-> FALSE]
  /\ armed = [c \in Clients |-> TRUE]
  /\ listening = [c \in Clients |-> TRUE]
  /\ conn = [c \in Clients |-> "open"]
  /\ sent = <<>>
  /\ quiet = 0
  /\ last = Idle

\* one user types Alice, the other Bob
Init ==
  /\ Setup
  /\ answer = [c \in Clients |->
                IF c = Viewer THEN Typed(<<"Alice">>) ELSE Typed(<<"Bob">>)]

\* the users answer the prompt in any way
InitAnswers ==
  /\ Setup
  /\ answer \in [Clients -> Answers]

Next ==
  \/ \E r \in Clients : LocalInsert(r)
  \/ \E r \in Clients : LocalDelete(r)
  \/ \E r \in Clients : LocalMeta(r)
  \/ \E r \in Clients : TimerTick(r)
  \/ \E r \in Clients : SnapshotClick(r)
  \/ \E r \in Clients : Push(r)
  \/ \E r \in Clients : Pull(r)
  \/ Advance
  \/ handleYDocChange
  \/ \E r \in Clients : SelectVersion(r)
  \/ \E r \in Clients : VersionsClick(r)
  \/ \E r \in Clients : LiveTrackingClick(r)
  \/ \E r \in Clients : SettleFire(r)
  \/ \E c \in Clients : onConnect(c)
  \/ \E c \in Clients : onConnectResumes(c)
  \/ \E c \in Clients : onConnectRejects(c)
  \/ \E c \in Clients : onClose(c)
  \/ \E c \in Clients : onCloseResumes(c)
  \/ \E c \in Clients : onCloseRejects(c)

Spec == Init /\ [][Next]_vars

\* presence: connections open and close while one client edits
NextPresence ==
  \/ LocalInsert(Viewer)
  \/ Push(Viewer)
  \/ handleYDocChange
  \/ \E c \in Clients : onConnect(c)
  \/ \E c \in Clients : onConnectResumes(c)
  \/ \E c \in Clients : onConnectRejects(c)
  \/ \E c \in Clients : onClose(c)
  \/ \E c \in Clients : onCloseResumes(c)
  \/ \E c \in Clients : onCloseRejects(c)

SpecPresence == Init /\ [][NextPresence]_vars

\* editing, capturing and synchronisation
NextCapture ==
  \/ \E r \in Clients : LocalInsert(r)
  \/ \E r \in Clients : LocalDelete(r)
  \/ \E r \in Clients : LocalMeta(r)
  \/ \E r \in Clients : TimerTick(r)
  \/ \E r \in Clients : SnapshotClick(r)
  \/ \E r \in Clients : Push(r)
  \/ \E r \in Clients : Pull(r)
  \/ Advance

SpecCapture == Init /\ [][NextCapture]_vars

\* change attribution on the room server: editing, manual capture and what
\* the clients send
NextServer ==
  \/ \E r \in Clients : LocalInsert(r)
  \/ \E r \in Clients : LocalDelete(r)
  \/ \E r \in Clients : LocalMeta(r)
  \/ \E r \in Clients : SnapshotClick(r)
  \/ \E r \in Clients : Push(r)
  \/ Advance
  \/ handleYDocChange

SpecServer == Init /\ [][NextServer]_vars

\* change attribution when the users answer the prompt in any way
NextNames ==
  \/ \E r \in Clients : LocalInsert(r)
  \/ \E r \in Clients : SnapshotClick(r)
  \/ \E r \in Clients : Push(r)
  \/ handleYDocChange

SpecNames == InitAnswers /\ [][NextNames]_vars

\* the time-travel view of one client, which edits and captures and
\* receives what the other client edits and captures
NextView ==
  \/ \E r \in Clients : LocalInsert(r)
  \/ \E r \in Clients : SnapshotClick(r)
  \/ \E r \in Clients \ {Viewer} : Push(r)
  \/ Pull(Viewer)
  \/ SelectVersion(Viewer)
  \/ VersionsClick(Viewer)
  \/ LiveTrackingClick(Viewer)
  \/ SettleFire(Viewer)

SpecView == Init /\ [][NextView]_vars

\* capturing where every content edit is an insertion, so that the structs of
\* a client tell what it edited and when
NextCredit ==
  \/ \E r \in Clients : LocalInsert(r)
  \/ \E r \in Clients : TimerTick(r)
  \/ \E r \in Clients : SnapshotClick(r)
  \/ \E r \in Clients : Push(r)
  \/ \E r \in Clients : Pull(r)
  \/ Advance

SpecCredit == Init /\ [][NextCredit]_vars

\* the auto-snapshot drivers before and after the users stop editing: the
\* timers keep firing, the provider keeps delivering and the timeout of
\* PermanentUserData fires
NextQuiesce ==
  \/ \E r \in Clients : LocalInsert(r)
  \/ \E r \in Clients : LocalDelete(r)
  \/ \E r \in Clients : LocalMeta(r)
  \/ \E r \in Clients : TimerTick(r)
  \/ \E r \in Clients : Push(r)
  \/ \E r \in Clients : Pull(r)
  \/ Advance
  \/ StopEditing

\* ENABLED <<TimerTick(r)>>_vars written as a state predicate: a tick of the
\* timer of client r is pending, and the Version it would append is within
\* the bound on the inputs
TimerTickEnabled(r) ==
  /\ armed[r]
  /\ due[r]
  /\ (/\ autoFlag[r]
      /\ now - lastVersionTime[r] >= Interval
      /\ Cardinality(Text(r)) > 0
      /\ addVersionAdds(r)) => (Room(r) \/ quiet > 0)

\* WF_vars(TimerTick(r)): a pending tick of setInterval fires
TimerTickFair(r) == <>[]TimerTickEnabled(r) => []<><<TimerTick(r)>>_vars

SpecQuiesce ==
  /\ Init
  /\ [][NextQuiesce]_vars
  /\ \A r \in Clients :
       /\ WF_vars(LocalMeta(r))
       /\ TimerTickFair(r)
       /\ WF_vars(Push(r))
       /\ WF_vars(Pull(r))
  /\ WF_vars(Advance)

\* capturing when a caller of setupAutoSnapshot uses the function it returns
NextStop ==
  \/ \E r \in Clients : LocalInsert(r)
  \/ \E r \in Clients : TimerTick(r)
  \/ \E r \in Clients : SnapshotClick(r)
  \/ \E r \in Clients : Push(r)
  \/ \E r \in Clients : Pull(r)
  \/ Advance
  \/ \E r \in Clients : stopAutoSnapshot(r)

SpecStop == Init /\ [][NextStop]_vars

\* ------------------------------------------------------------- properties
\* the last entry of a non-empty sequence
LastOf(seq) == seq[Len(seq)]

\* the clock a decoded snapshot holds for client c, 0 when it holds none
ClockOf(snap, c) == OrZero(MapGet(snap.sv, c))

\* the clock for client c of Version v's snapshot after compensation: one
\* more than stored when v's author is c
CompensatedClock(v, c) ==
  ClockOf(decodeSnapshot(v.snapshot), c) + (IF v.clientID = c THEN 1 ELSE 0)

\* C1 - Idempotence of capture.  In the state an invocation of addVersion
\* leaves behind, whether it pushed a Version or not, a further invocation on
\* the same replica pushes nothing and returns false (what addVersion returns
\* depends on the document only, so this stays so until the document
\* changes); and when the invocation did push, the reason is that the last
\* Version's compensated snapshot equals the current snapshot.
C1_Idempotent ==
  last.called =>
    /\ ~addVersionAdds(last.who)
    /\ last.ret =>
         equalSnapshots(prevSnapshotOf(Versions(last.who)),
                        Snapshot(last.who))

\* addVersion was invoked a second time on an unchanged document, right
\* after the capture that the log ends with
C1_Witness ==
  /\ last.called /\ ~last.ret
  /\ Len(Versions(last.who)) > 0
  /\ LastOf(Versions(last.who)).clientID = last.who
  /\ equalSnapshots(prevSnapshotOf(Versions(last.who)), Snapshot(last.who))

\* C2 - Empty-document refusal.  While the visible content of a replica is
\* empty, addVersion on it would return false, and a timer callback or a
\* click on the Snapshot button on it reports nothing captured and leaves
\* its Version Log as it was, whatever the clocks, the edit flags and the
\* log are.
C2_EmptyRefused ==
  /\ [](\A r \in Clients : Text(r) = {} => ~addVersionAdds(r))
  /\ [][\A r \in Clients :
         (Text(r) = {} /\ last'.op \in {"timer", "click"} /\ last'.who = r)
           => (~last'.ret /\ Versions(r)' = Versions(r))]_vars

\* the Snapshot button was clicked on an emptied document whose edit flag is
\* set and whose log holds a Version already
C2_Witness ==
  /\ last.op = "click"
  /\ Text(last.who) = {}
  /\ btnFlag[last.who]
  /\ Len(Versions(last.who)) > 0
  /\ last.alert = "The document is empty."

\* C3 as stated - in the Version Log of every replica, every Version holds
\* for its author a clock greater than the compensated clock of the entry
\* before it, and greater than 0 when it is the first entry.
C3_EveryLog ==
  \A d \in Docs :
    LET vs == Versions(d)
    IN \A i \in 1 .. Len(vs) :
         LET R == vs[i].clientID
             clock == ClockOf(decodeSnapshot(vs[i].snapshot), R)
         IN IF i = 1 THEN clock > 0
            ELSE clock > CompensatedClock(vs[i - 1], R)

\* C3 - Monotonic local clock advance at capture.  A Version that replica R
\* has just captured is the last entry of R's log and holds for R a clock
\* greater than the compensated clock of the entry before it in R's log,
\* and greater than 0 when R's log was empty.
C3_AtCapture ==
  (last.called /\ last.ret) =>
    LET R == last.who
        vs == Versions(R)
        n == Len(vs)
        clock == ClockOf(decodeSnapshot(vs[n].snapshot), R)
    IN /\ n > 0
       /\ vs[n].clientID = R
       /\ IF n = 1 THEN clock > 0
          ELSE clock > CompensatedClock(vs[n - 1], R)

\* a replica has just captured a Version after a Version of its own
C3_Witness ==
  /\ last.called /\ last.ret
  /\ Len(Versions(last.who)) > 1
  /\ Versions(last.who)[Len(Versions(last.who)) - 1].clientID = last.who

\* C4 as stated - every click on the Snapshot button ends in a capture or
\* in one of the two refusal messages.
C4_Surfaced ==
  last.op = "click" => (last.ret \/ last.alert # "")

\* handleYDocChange takes the step: it alone clears dirty
Observes == dirty /\ ~dirty'

\* the replicas whose clock on the server exceeds the stored baseline
Increased ==
  {c \in DOMAIN StateVector(Server) :
     StateVector(Server)[c] > ClockOf([sv |-> lastStateVector], c)}

\* C5 - Attribution stability under no-op updates.  When handleYDocChange
\* observes a state vector in which no replica's clock exceeds the stored
\* baseline, lastChangeInfo keeps its value (author, username, timestamp)
\* and the baseline map is unchanged.
C5_NoOpStable ==
  [][(Observes /\ Increased = {})
       => (lastChangeInfo' = lastChangeInfo
           /\ lastStateVector' = lastStateVector)]_vars

\* an update that deleted content only was observed at a later time than the
\* change lastChangeInfo records
C5_Witness ==
  /\ last.op = "observe"
  /\ lastChangeInfo # None
  /\ lastChangeInfo[1].timestamp < now
  /\ lastStateVector = StateVector(Server)
  /\ ds[Server] # {}

\* C6 - Single-author attribution.  In every observation after the first in
\* which exactly one replica's clock exceeds its baseline (0 for a replica
\* not seen before), handleYDocChange sets lastChangeInfo.clientID to that
\* replica, whatever lastChangeInfo was, and takes the clock as its baseline.
C6_SingleAuthor ==
  [][(Observes /\ Cardinality(DOMAIN lastStateVector) # 0
        /\ Cardinality(Increased) = 1)
       => \A c \in Increased :
            /\ lastChangeInfo' # None
            /\ lastChangeInfo'[1].clientID = c
            /\ lastChangeInfo'[1].timestamp = now
            /\ lastStateVector'[c] = StateVector(Server)[c]]_vars

\* the second replica, unseen in the baseline, was attributed its first
\* struct
C6_Witness ==
  /\ last.op = "observe"
  /\ lastChangeInfo # None
  /\ lastChangeInfo[1].clientID = 2
  /\ lastStateVector = (1 :> 1 @@ 2 :> 1)

\* C7 - First observation is baseline only.  When the baseline map is empty,
\* handleYDocChange stores the observed state vector as the baseline and
\* leaves lastChangeInfo alone; lastChangeInfo is null while the baseline is
\* empty and leaves null only in an observation that finds a clock above a
\* non-empty baseline.
C7_FirstIsBaseline ==
  /\ [](Cardinality(DOMAIN lastStateVector) = 0 => lastChangeInfo = None)
  /\ [][(Observes /\ Cardinality(DOMAIN lastStateVector) = 0)
         => (lastStateVector' = StateVector(Server)
             /\ lastChangeInfo' = lastChangeInfo)]_vars
  /\ [][(lastChangeInfo = None /\ lastChangeInfo' # None)
         => (Observes /\ Cardinality(DOMAIN lastStateVector) # 0
             /\ Increased # {})]_vars

\* the first observation saw both replicas, one of them with more than its
\* first struct, and attributed nothing
C7_Witness ==
  /\ last.op = "observe"
  /\ lastChangeInfo = None
  /\ DOMAIN lastStateVector = Clients
  /\ \E c \in Clients : lastStateVector[c] > 1

\* C8 - Diff pair on selection.  Right after entry i of the rendered list
\* was selected, whatever the view state was before, the view holds the
\* decoded snapshot of entry i of the replica's Version Log as snapshot and
\* the decoded snapshot of entry i-1 as prevSnapshot, the empty snapshot
\* when i = 1.
C8_DiffPair ==
  last.op = "select" =>
    LET r == last.who
        i == last.index
        vs == Versions(r)
    IN /\ i \in 1 .. Len(vs)
       /\ syncState[r] =
            [snapshot |-> Some(decodeSnapshot(vs[i].snapshot)),
             prevSnapshot |->
               Some(IF i = 1 THEN emptySnapshot
                    ELSE decodeSnapshot(vs[i - 1].snapshot))]

\* the second entry was selected in a log whose first entry was captured
\* by the other replica
C8_Witness ==
  /\ last.op = "select"
  /\ last.index = 2
  /\ Versions(last.who)[1].clientID # last.who

\* C9 - Round-trip materialization.  A step that captures a Version on
\* replica r leaves r's visible content as it was, and in the state right
\* after the capture, materializing r's document from the decoded snapshot
\* of the new Version gives exactly that content.
C9_RoundTrip ==
  /\ [][\A r \in Clients :
         (last'.called /\ last'.ret /\ last'.who = r)
           => Text(r)' = Text(r)]_vars
  /\ []((last.called /\ last.ret)
          => Materialize(last.who,
               decodeSnapshot(LastOf(Versions(last.who)).snapshot))
             = Text(last.who))

\* a Version was just captured of a document with deleted content
C9_Witness ==
  /\ last.called /\ last.ret
  /\ decodeSnapshot(LastOf(Versions(last.who)).snapshot).ds # {}
  /\ Text(last.who) # OfKind(last.who, "text")

\* the elements of a sequence
Range(seq) == {seq[i] : i \in 1 .. Len(seq)}

\* C10 - The Version Log is append-only and immutable.  On every replica
\* the log lists exactly the Version structs the replica has integrated,
\* each once; and in every step each of them stays integrated with the same
\* date, snapshot, clientID and username, so the log does not get shorter,
\* and a successful capture adds exactly one to the capturing replica.
C10_AppendOnly ==
  /\ [](\A d \in Docs :
          /\ Range(VersionIds(d)) = OfKind(d, "version")
          /\ Len(Versions(d)) = Cardinality(OfKind(d, "version")))
  /\ [][\A d \in Docs :
         LET old == OfKind(d, "version")
             new == OfKind(d, "version")'
         IN /\ \A id \in old :
                 /\ id \in new
                 /\ VersionOf(id)' = VersionOf(id)
            /\ Cardinality(new) >= Cardinality(old)
            /\ (last'.called /\ last'.ret /\ last'.who = d)
                 => Cardinality(new) = Cardinality(old) + 1]_vars

\* a Version was just captured into a log that held a Version of the other
\* replica
C10_Witness ==
  /\ last.called /\ last.ret
  /\ Len(Versions(last.who)) >= 2
  /\ \E i \in 1 .. Len(Versions(last.who)) :
       Versions(last.who)[i].clientID # last.who

\* C11: presence reporting is fire-and-forget: a presence request that fails
\* does not keep onConnect from handing the connection to the document sync
\* handler, and no failure of updateCount propagates out of onConnect or
\* onClose
C11_FireAndForget ==
  \A c \in Clients : conn[c] \notin {"unsynced", "closeFailed"}

\* C12: when the live-tracking toggle is switched on, the view resumes at
\* (snapshot = null, prevSnapshot = snapshot of the latest Version) if the
\* log is non-empty, and in Live, with no snapshot pair set, if it is empty
C12_ResumeFromLog ==
  (last.op = "track" /\ checked[last.who]) =>
    LET versions == Versions(last.who)
    IN syncState[last.who] =
         IF Len(versions) > 0
         THEN [snapshot |-> None,
               prevSnapshot |->
                 Some(decodeSnapshot(versions[Len(versions)].snapshot))]
         ELSE Live

\* the structs client r created after its latest capture before position n
\* of its own structs, all of them if there is none
SinceOwnCapture(r, n) ==
  LET captures == {k \in 1 .. (n - 1) : store[r][k].kind = "version"}
      from == IF captures = {} THEN 0
              ELSE CHOOSE k \in captures : \A j \in captures : j <= k
  IN {store[r][k] : k \in (from + 1) .. (n - 1)}

\* C13: no credit without a local edit: in the state right after a replica
\* appended a Version, the replica has itself inserted content since its own
\* most recent capture, or since the start if it never captured before
C13_NoCredit ==
  (last.called /\ last.ret) =>
    \E struct \in SinceOwnCapture(last.who, Len(store[last.who])) :
      struct.kind = "text"

\* C14: tie-break.  When handleYDocChange observes, against a non-empty
\* baseline, a state vector in which one or several replicas' clocks exceed
\* their baselines, it attributes the change to the one of them that comes
\* last in the enumeration order of the decoded state vector, and so to no
\* replica whose clock did not increase.
C14_TieBreak ==
  [][(Observes /\ Cardinality(DOMAIN lastStateVector) # 0 /\ Increased # {})
       => LET entries == Entries(StateVector(Server))
              candidates == {i \in 1 .. Len(entries) :
                               entries[i][1] \in Increased}
              winner == CHOOSE i \in candidates :
                          \A j \in candidates : j <= i
          IN /\ lastChangeInfo' # None
             /\ lastChangeInfo'[1].clientID = entries[winner][1]
             /\ lastChangeInfo'[1].clientID \in Increased]_vars

\* one observation found both replicas advanced and attributed the change
C14_Witness ==
  /\ last.op = "observe"
  /\ last.advanced = Clients
  /\ lastChangeInfo # None
  /\ lastChangeInfo[1].timestamp = now

\* the entries of the server's Version Log captured by replica c that satisfy
\* Named
OwnEntries(c, Named(_)) ==
  {i \in 1 .. Len(Versions(Server)) :
     Versions(Server)[i].clientID = c /\ Named(Versions(Server)[i])}

\* the username attribution resolves for replica c when it takes the entries
\* that satisfy Named into account
Resolved(c, Named(_)) ==
  LET own == OwnEntries(c, Named)
  IN IF own = {} THEN UnknownUser
     ELSE Versions(Server)[CHOOSE i \in own : \A j \in own : j <= i].username

AnyName(version) == TRUE
NonEmptyName(version) == version.username # <<>>

\* C15 as stated: in the state right after an observation that attributed a
\* change, lastChangeInfo.username is the username of the newest entry of the
\* log whose clientID is the winner, and "Unknown user" exactly when the log
\* has no entry with that clientID
C15_Username ==
  (last.op = "observe" /\ last.advanced # {}) =>
    /\ lastChangeInfo[1].username =
         Resolved(lastChangeInfo[1].clientID, AnyName)
    /\ lastChangeInfo[1].username = UnknownUser
         <=> OwnEntries(lastChangeInfo[1].clientID, AnyName) = {}

\* C15 amended: in the state right after an observation that attributed a
\* change, lastChangeInfo.username is the username of the newest entry of the
\* log whose clientID is the winner and whose username is not empty, and
\* "Unknown user" when the log has no such entry
C15_UsernameNonEmpty ==
  (last.op = "observe" /\ last.advanced # {}) =>
    lastChangeInfo[1].username =
      Resolved(lastChangeInfo[1].clientID, NonEmptyName)

\* a change was attributed to a replica whose user answered the prompt with
\* blanks: the log holds a Version of it, under the empty name
C15_Witness ==
  /\ last.op = "observe"
  /\ last.advanced # {}
  /\ OwnEntries(lastChangeInfo[1].clientID, AnyName) # {}
  /\ OwnEntries(lastChangeInfo[1].clientID, NonEmptyName) = {}
  /\ lastChangeInfo[1].username = UnknownUser

\* C16: the driver's flag is cleared on every successful capture: in the
\* state right after a timer tick appended a Version, the flag of that
\* replica's driver is not set, so that the next tick runs the capture
\* algorithm only after a further local update
C16_FlagCleared ==
  (last.op = "timer" /\ last.ret) => ~autoFlag[last.who]

\* C17: no Version is added at a tick when nothing changed locally since the
\* previous Version: in the state right after a timer tick of replica r
\* appended a Version, r has inserted content that the Version before the
\* new one in r's log does not cover (any content of r when there is none
\* before)
C17_RateLimit ==
  (last.op = "timer" /\ last.ret) =>
    LET r == last.who
        vs == Versions(r)
        covered == IF Len(vs) < 2 THEN 0
                   ELSE CompensatedClock(vs[Len(vs) - 1], r)
    IN \E id \in OfKind(r, "text") : id[1] = r /\ id[2] >= covered

\* C18: stopping the auto-snapshot driver halts it.  The call of the stop
\* function leaves the document and so the Version Log as they are; once
\* the driver of replica r is stopped it stays stopped, no timer callback of
\* r is pending or runs, and r's driver flag and lastVersionTime no longer
\* change, whatever updates r's document receives.
C18_Stopped ==
  /\ [](\A r \in Clients : ~armed[r] => (~due[r] /\ ~listening[r]))
  /\ [][\A r \in Clients :
         (armed[r] /\ ~armed'[r]) =>
           (store' = store /\ known' = known /\ ds' = ds)]_vars
  /\ [][\A r \in Clients :
         ~armed[r] =>
           /\ ~armed'[r]
           /\ autoFlag'[r] = autoFlag[r]
           /\ lastVersionTime'[r] = lastVersionTime[r]
           /\ ~(last'.op = "timer" /\ last'.who = r /\ last' # last)]_vars

\* a driver was stopped before its replica had content; later the replica
\* inserted content and a timer period passed, and the driver's flag is
\* still unset
C18_Witness ==
  \E r \in Clients :
    /\ ~armed[r]
    /\ ~autoFlag[r]
    /\ \E id \in Text(r) : id[1] = r
    /\ now > 0
    /\ \E c \in Clients : due[c]

\* the pair the view holds for entry i of the log vs
SelectedPair(vs, i) ==
  [snapshot |-> Some(decodeSnapshot(vs[i].snapshot)),
   prevSnapshot |-> Some(IF i = 1 THEN emptySnapshot
                         ELSE decodeSnapshot(vs[i - 1].snapshot))]

\* C19: Viewing to Viewing is atomic.  A step in which an entry is selected
\* while the view is in a Viewing state leads, in that one step, to the
\* state whose snapshot and prevSnapshot both belong to the entry selected:
\* the state after it is neither Live nor a pair mixed from two selections.
C19_Atomic ==
  [][\A r \in Clients :
       (ViewKind(syncState[r]) = "Viewing"
          /\ last'.op = "select" /\ last'.who = r)
         => /\ last'.index \in 1 .. Len(Versions(r))
            /\ \A i \in 1 .. Len(Versions(r)) :
                 i = last'.index =>
                   syncState'[r] = SelectedPair(Versions(r), i)
            /\ ViewKind(syncState'[r]) = "Viewing"]_vars

\* an entry was selected while the view showed another pair
C19_Witness ==
  /\ last.op = "select"
  /\ ViewKind(last.from) = "Viewing"
  /\ last.from # syncState[last.who]
  /\ last.from.prevSnapshot # syncState[last.who].prevSnapshot

\* C20: return to Live.  The view starts in Live, with snapshot and
\* prevSnapshot both null, and a click on the Versions button, as well as a
\* click that switches the live-tracking toggle off, leaves the view in
\* Live with both cleared, whatever state it was in.
C20_ReturnToLive ==
  /\ \A r \in Clients : syncState[r] = Live
  /\ [][\A r \in Clients :
         (last'.op = "versions" /\ last'.who = r) =>
           (syncState'[r].snapshot = None
              /\ syncState'[r].prevSnapshot = None)]_vars
  /\ [][\A r \in Clients :
         (last'.op = "track" /\ last'.who = r /\ checked[r] /\ ~checked'[r])
           => (syncState'[r].snapshot = None
                 /\ syncState'[r].prevSnapshot = None)]_vars

\* the live-tracking toggle was switched off while the view showed a
\* selected Version, and the view is Live
C20_Witness ==
  /\ last.op = "track"
  /\ ~checked[last.who]
  /\ ViewKind(last.from) = "Viewing"
  /\ syncState[last.who] = Live

\* the server starts to handle the connect or the disconnect of client c
Handles(c) ==
  \/ conn[c] \in {"closed", "closeFailed"} /\ conn'[c] = "connecting"
  \/ conn[c] \in {"open", "unsynced"} /\ conn'[c] = "closing"

\* C21: presence report content.  Every step in which the server starts to
\* handle a connect or a disconnect sends exactly one report, whose count is
\* the number of sockets connected to the room after that connect or
\* disconnect and whose lastChange is lastChangeInfo as it is then (null
\* while nothing was attributed); no other step, and so no document update,
\* sends a report, and reports sent are not changed.
C21_Report ==
  /\ [][(\E c \in Clients : Handles(c)) =>
         sent' = Append(sent,
           [count |-> Cardinality({c \in Clients :
                        conn'[c] \in {"connecting", "open", "unsynced"}}),
            lastChange |-> lastChangeInfo])]_vars
  /\ [][(\A c \in Clients : ~Handles(c)) => sent' = sent]_vars
  /\ [](lastChangeInfo = None =>
          \A i \in 1 .. Len(sent) : sent[i].lastChange = None)

\* the report of a disconnect that left one socket connected carries an
\* attributed change, after a report that carried none
C21_Witness ==
  /\ Len(sent) >= 2
  /\ sent[Len(sent)].lastChange # None
  /\ sent[Len(sent)].count = 1
  /\ sent[1].lastChange = None
  /\ \E c \in Clients : conn[c] = "closing"

Agrees(r) ==
  checked[r] <=>
    (syncState[r].prevSnapshot # None /\ syncState[r].snapshot = None)

\* C23 as stated: every transition of the view state sets a settle timer,
\* and in every state in which no settle timer of a client is pending its
\* checkbox is checked if and only if prevSnapshot is non-null and snapshot
\* is null
C23_SettlesAlways ==
  /\ [][\A r \in Clients :
         syncState'[r] # syncState[r] => settle'[r] = settle[r] + 1]_vars
  /\ [](\A r \in Clients : settle[r] = 0 => Agrees(r))

\* C23 amended: a version selection, a click on the Versions button and a
\* click that switches live tracking off each set a settle timer; a click
\* that switches live tracking on sets none and leaves the checkbox checked
\* with prevSnapshot non-null and snapshot null; and in every state in which
\* no settle timer of a client is pending its checkbox is checked if and
\* only if prevSnapshot is non-null and snapshot is null
C23_Agrees ==
  /\ [][\A r \in Clients :
         (last'.who = r
            /\ \/ last'.op \in {"select", "versions"}
               \/ last'.op = "track" /\ ~checked'[r])
           => settle'[r] = settle[r] + 1]_vars
  /\ [][\A r \in Clients :
         (last'.who = r /\ last'.op = "track" /\ checked'[r])
           => (settle'[r] = settle[r] /\ Agrees(r)')]_vars
  /\ [](\A r \in Clients : settle[r] = 0 => Agrees(r))

\* live tracking was switched on while no settle timer was pending, from a
\* view that showed a selected Version
C23_Witness ==
  /\ last.op = "track"
  /\ checked[last.who]
  /\ settle[last.who] = 0
  /\ ViewKind(last.from) = "Viewing"
  /\ ViewKind(syncState[last.who]) = "Tracking"

\* C24: the baseline tracks the highest clocks seen.  The state vectors of
\* the server's document never decrease, so the highest clock observed for
\* a replica is the one of the last observation: after every call of
\* handleYDocChange the baseline map equals the state vector just observed;
\* and in no step does a baseline entry disappear or decrease.
C24_Baseline ==
  /\ [][Observes => lastStateVector' = StateVector(Server)]_vars
  /\ [][\A c \in DOMAIN lastStateVector :
         /\ c \in DOMAIN lastStateVector'
         /\ lastStateVector'[c] >= lastStateVector[c]]_vars
  /\ [][\A c \in DOMAIN StateVector(Server) :
         /\ c \in DOMAIN StateVector(Server)'
         /\ StateVector(Server)'[c] >= StateVector(Server)[c]]_vars

\* an observation found one replica advanced and the other, known to the
\* baseline, not
C24_Witness ==
  /\ last.op = "observe"
  /\ Cardinality(last.advanced) = 1
  /\ DOMAIN lastStateVector = Clients
  /\ lastStateVector = StateVector(Server)
  /\ \E c \in Clients : lastStateVector[c] >= 3

\* C25: compensation is always defined.  The snapshot stored in every
\* Version of every log holds, for the Version's author, a clock of at
\* least 1, so the prevSnapshot that addVersion derives on any replica from
\* the last Version has a number, never NaN, as the author's entry.
C25_Compensable ==
  \A d \in Docs :
    /\ \A i \in 1 .. Len(Versions(d)) :
         LET v == Versions(d)[i]
             clock == MapGet(decodeSnapshot(v.snapshot).sv, v.clientID)
         IN clock \notin {Undefined, NaN} /\ clock >= 1
    /\ \A c \in DOMAIN prevSnapshotOf(Versions(d)).sv :
         prevSnapshotOf(Versions(d)).sv[c] \notin {Undefined, NaN}

\* addVersion ran on a replica whose last Version is another replica's, and
\* added nothing
C25_Witness ==
  /\ last.called
  /\ ~last.ret
  /\ Len(Versions(last.who)) > 0
  /\ LastOf(Versions(last.who)).clientID # last.who

\* every replica and the server hold the same structs and deletions
AllDelivered ==
  \A c \in Clients :
    ~pud[c] /\ known[c] = known[Server] /\ ds[c] = ds[Server]

\* the timer of replica r, when it fires next, appends a Version
TimerAdds(r) ==
  autoFlag[r] /\ Cardinality(Text(r)) > 0 /\ addVersionAdds(r)

\* everything is delivered and no timer would append a Version
Settled == AllDelivered /\ \A r \in Clients : ~TimerAdds(r)

\* C26: quiescence.  Once all users have stopped editing the content, with
\* timers that keep firing and a provider that keeps delivering, a point is
\* reached from which on, forever, everything is delivered and no timer on
\* any replica would append a Version: the Version Log has stopped growing
\* on every replica.
C26_Quiescence == (quiet > 0) ~> []Settled

\* after the users stopped editing, a timer tick appended a Version, which
\* was delivered, and a further timer period passed in which the driver
\* called addVersion and nothing was added
C26_Witness ==
  /\ quiet > 2
  /\ Settled
  /\ last.op = "timer" /\ last.called /\ ~last.ret
  /\ \E c \in Clients : \E i \in 1 .. Len(Versions(c)) :
       Versions(c)[i].date > now - (quiet - 1)

=============================================================================
